---- MODULE Spec2Model ----
(***************************************************************************)
(* State-machine model of the PTT auto-login client (src/PttAuto.py).      *)
(*                                                                         *)
(* The coroutines of class Ptt and the function main are modelled as       *)
(* procedures on an explicit call stack.  Every action is one step of one  *)
(* coroutine between two suspension points (awaits).  The remote side      *)
(* (SSH server, BBS screen text, process life cycle) is the environment:   *)
(* its answers are drawn nondeterministically from bounded sets.           *)
(*                                                                         *)
(* Screen text is abstracted to the set of recognised phrases it contains; *)
(* the phrases are the literal substrings the source tests with `in`.      *)
(* The phrases are written here in ASCII glosses of the Big5 originals.    *)
(***************************************************************************)
EXTENDS Integers, Sequences, FiniteSets, TLC

VARIABLES
    stack,          \* call stack of coroutine frames, innermost last
    ret,            \* value returned by the coroutine that finished last
    ssh_conn,       \* self._ssh_conn: connection id, NoHandle when None
    ssh_process,    \* self._ssh_process: id of the connection it runs on
    content,        \* self._content: phrases contained in the last text read
    connected,      \* self._connected
    host,           \* self._host
    post_success,   \* local post_success of main
    openConns,      \* environment: connections opened and not yet closed
    opened,         \* environment: number of connections opened so far
    remote,         \* environment: state of the object self._ssh_process
    drops,          \* environment: times the remote side ended the process
    refusals,       \* environment: times an accepted connection was refused
    notes,          \* history: kinds of notification sent, in order
    disconnects,    \* history: number of calls of disconnect()
    writes,         \* history: data passed to stdin.write, in order
    wconn,          \* history: the connection the last of them was written to
    connlog,        \* history: budget and open attempts of the last connect()
    wlog,           \* history: the last top-level _write_data() call
    outcome,        \* history: classification reached by the login flow
    badSeen,        \* history: first read of the bad-credentials phrase
    loginReads,     \* history: texts read by the login flow, in order
    fired           \* history: corrective branches taken, in order

vars == <<stack, ret, ssh_conn, ssh_process, content, connected, host,
          post_success, openConns, opened, remote, drops, refusals, notes,
          disconnects, writes, wconn, connlog, wlog, outcome, badSeen,
          loginReads, fired>>

----------------------------------------------------------------------------
(* Bounds of the environment and of the inputs.                            *)

MaxDrops == 2
MaxRefusals == 1
MaxRetries == 2

----------------------------------------------------------------------------
(* Program constants and static data.                                      *)

NoHandle == 0

DefaultMaxRetries == 3

hosts == <<"ptt.cc", "ptt.cc", "ptt.cc">>

CRLF == "CRLF"

_user == "account"

_password == "secret"

OverloadSignature == "system overloaded"

BadCredentialsSignature == "wrong password"

DuplicateLoginSignature == "delete other duplicate logins"

AnyKeySignature == "press any key to continue"

StaleErrorSignature == "delete the failed attempts above"

UnfinishedDraftSignature == "you have an unfinished article"

login_prompts == {"please enter ID", "ID", "guest", "new", "enter ID"}

success_indicators ==
    {"main menu", "(M)ail", "(A)nnounce", "(F)avorite", "(T)alk", "(U)ser",
     "(C)hat", "(P)lay", "(N)amelist", "(G)oodbye"}

LogoutKeys == <<"qqqqqqqqqg", CRLF, "y", CRLF>>

(* Fault variant of Correctives: the duplicate-login branch sends a bare   *)
(* terminator.                                                             *)
Correctives_DupBareTerminator ==
    << [sig |-> DuplicateLoginSignature,  keys |-> <<CRLF>>],
       [sig |-> AnyKeySignature,          keys |-> <<CRLF>>],
       [sig |-> StaleErrorSignature,      keys |-> <<"y", CRLF>>],
       [sig |-> UnfinishedDraftSignature, keys |-> <<"q", CRLF>>] >>

(* The corrective branches of is_success in source order: phrase tested,   *)
(* keystrokes written.                                                     *)
Correctives ==
    << [sig |-> DuplicateLoginSignature,  keys |-> <<"y", CRLF>>],
       [sig |-> AnyKeySignature,          keys |-> <<CRLF>>],
       [sig |-> StaleErrorSignature,      keys |-> <<"y", CRLF>>],
       [sig |-> UnfinishedDraftSignature, keys |-> <<"q", CRLF>>] >>

----------------------------------------------------------------------------
(* Texts the remote side may produce (after cleaning).  EmptyText is also  *)
(* what a timed-out or failed read returns.                                *)

EmptyText == {}

WelcomeText == {"please enter ID", "enter ID", "ID", "guest", "new"}

MenuText == success_indicators

Texts ==
    { EmptyText,
      {OverloadSignature},
      WelcomeText,
      {BadCredentialsSignature},
      {DuplicateLoginSignature},
      {AnyKeySignature},
      {StaleErrorSignature},
      {UnfinishedDraftSignature},
      MenuText,
      MenuText \cup {AnyKeySignature} }

----------------------------------------------------------------------------
(* Pure helpers.                                                           *)

(* Fault variant of IsOverloaded: the overload test is lost.               *)
IsOverloaded_Never(text) == FALSE

IsOverloaded(text) == OverloadSignature \in text

(* Fault variant of HasLoginPrompt: the prompt test always succeeds.        *)
HasLoginPrompt_Always(text) == TRUE

HasLoginPrompt(text) == \E prompt \in login_prompts : prompt \in text

(* Fault variant of HasBadCredentials: the rejection test is lost.         *)
HasBadCredentials_Never(text) == FALSE

HasBadCredentials(text) == BadCredentialsSignature \in text

(* Fault variant of IsMainMenu: every buffer counts as the main menu.       *)
IsMainMenu_Always(text) == TRUE

IsMainMenu(text) == \E indicator \in success_indicators : indicator \in text

(* Fault variant of RetryExhausted: one pass too many.                     *)
RetryExhausted_OffByOne(attempt, max_retries) == attempt > max_retries

RetryExhausted(attempt, max_retries) == attempt >= max_retries

Frame(proc, pc) ==
    [proc |-> proc, pc |-> pc, attempt |-> 0, host_idx |-> 0,
     max_retries |-> 0, data |-> <<>>, retry_on_failure |-> FALSE, step |-> 0]

ConnectFrame(n) == [Frame("connect", "c_open") EXCEPT
                        !.max_retries = n, !.host_idx = 1]

WriteFrame(data, retry) == [Frame("write", "w_health") EXCEPT
                                !.data = data, !.retry_on_failure = retry]

Top == stack[Len(stack)]

At(proc, pc) == Len(stack) > 0 /\ Top.proc = proc /\ Top.pc = pc

Done == stack = <<>>

Goto(pc) == stack' = [stack EXCEPT ![Len(stack)].pc = pc]

Call(retpc, callee) ==
    stack' = Append([stack EXCEPT ![Len(stack)].pc = retpc], callee)

Return(v) == /\ stack' = SubSeq(stack, 1, Len(stack) - 1)
             /\ ret' = v

NewConnLog(n) == [budget |-> n, opens |-> <<>>]

NewWLog == [unhealthy |-> FALSE, connects |-> 0, connect_ok |-> FALSE,
            retried |-> 0, retry_unhealthy |-> FALSE, done |-> FALSE,
            result |-> FALSE]

(* _read_data: the texts a read may return.                                *)
ReadData == IF ssh_process = NoHandle THEN {EmptyText} ELSE Texts

(* _check_connection_health: its result, and self._connected after it.     *)
HandlesPresent == connected /\ ssh_conn # NoHandle /\ ssh_process # NoHandle

CheckConnectionHealth == HandlesPresent /\ remote = "ok"

(* Fault variant of ConnectedAfterHealthCheck: the flag is never cleared.   *)
ConnectedAfterHealthCheck_Unchanged == connected

ConnectedAfterHealthCheck == IF HandlesPresent THEN remote = "ok" ELSE connected

(* The fields of the session that disconnect() reads or assigns, with the   *)
(* transport they refer to.                                                *)
SessionState ==
    [ssh_conn |-> ssh_conn, ssh_process |-> ssh_process,
     connected |-> connected, openConns |-> openConns, remote |-> remote]

(* How closing a handle may end: at once, by the 3 s timeout of            *)
(* wait_closed, or by an exception; disconnect() swallows the last two.    *)
CloseResults == {"ok", "timeout", "error"}

(* The handles disconnect() calls close() on: none unless self._connected, *)
(* otherwise each handle that is set.                                      *)
DisconnectCloses(s) ==
    IF ~s.connected
    THEN {}
    ELSE {c \in {<<"process", s.ssh_process>>, <<"conn", s.ssh_conn>>} :
             c[2] # NoHandle}

(* Fault variant of DisconnectState: the finally clause forgets the        *)
(* handles.                                                                *)
DisconnectState_KeepHandles(s, close_result) ==
    IF ~s.connected THEN s ELSE [s EXCEPT !.connected = FALSE]

(* disconnect(): a no-op unless self._connected; otherwise both handles    *)
(* are closed and, in the finally clause, cleared, however the close ends. *)
DisconnectState(s, close_result) ==
    IF ~s.connected
    THEN s
    ELSE [ssh_conn |-> NoHandle, ssh_process |-> NoHandle,
          connected |-> FALSE, openConns |-> s.openConns \ {s.ssh_conn},
          remote |-> "none"]

Disconnect ==
    /\ disconnects' = disconnects + 1
    /\ \E close_result \in CloseResults :
          LET after == DisconnectState(SessionState, close_result) IN
          /\ ssh_process' = after.ssh_process
          /\ ssh_conn' = after.ssh_conn
          /\ connected' = after.connected
          /\ openConns' = after.openConns
          /\ remote' = after.remote

----------------------------------------------------------------------------
(* Initial state: the session object right after Ptt.__init__, main about  *)
(* to call connect().                                                      *)

FreshSession ==
    /\ ret = FALSE
    /\ ssh_conn = NoHandle
    /\ ssh_process = NoHandle
    /\ content = EmptyText
    /\ connected = FALSE
    /\ host = "ptt.cc"
    /\ post_success = FALSE
    /\ openConns = {}
    /\ opened = 0
    /\ remote = "none"
    /\ drops = 0
    /\ refusals = 0
    /\ notes = <<>>
    /\ disconnects = 0
    /\ writes = <<>>
    /\ wconn = NoHandle
    /\ wlog = NewWLog
    /\ outcome = "none"
    /\ badSeen = [seen |-> FALSE, first |-> FALSE, writesAt |-> 0, discAt |-> 0]
    /\ loginReads = <<>>
    /\ fired = <<>>

Init ==
    /\ FreshSession
    /\ stack = <<Frame("main", "m_start")>>
    /\ connlog = NewConnLog(0)

----------------------------------------------------------------------------
(* connect(max_retries): for attempt in range(max_retries), for each host. *)

(* `continue` of the inner loop, and the step of the outer loop after the  *)
(* last host.                                                              *)
ConnectContinue ==
    LET f == Top IN
    stack' = [stack EXCEPT ![Len(stack)] =
                IF f.host_idx = Len(hosts)
                THEN [f EXCEPT !.pc = "c_open", !.host_idx = 1,
                               !.attempt = f.attempt + 1]
                ELSE [f EXCEPT !.pc = "c_open",
                               !.host_idx = f.host_idx + 1]]

(* The two except clauses of connect: close and clear self._ssh_conn.      *)
ConnectHandler ==
    /\ ssh_conn' = NoHandle
    /\ openConns' = openConns \ {ssh_conn}

(* All passes made: connect returns False.                                 *)
ConnectExhausted ==
    /\ At("connect", "c_open")
    /\ RetryExhausted(Top.attempt, Top.max_retries)
    /\ Return(FALSE)
    /\ UNCHANGED <<ssh_conn, ssh_process, content, connected, host,
                   post_success, openConns, opened, remote, drops, refusals,
                   notes, disconnects, writes, wconn, connlog, wlog, outcome,
                   badSeen, loginReads, fired>>

(* asyncssh.connect under wait_for: success assigns self._ssh_conn, a      *)
(* timeout or an error runs the handler on the handle held before.         *)
ConnectOpen ==
    /\ At("connect", "c_open")
    /\ ~RetryExhausted(Top.attempt, Top.max_retries)
    /\ connlog' = [connlog EXCEPT !.opens = Append(@, Top.host_idx)]
    /\ \E result \in {"ok", "timeout", "error"} :
          IF result = "ok"
          THEN /\ opened' = opened + 1
               /\ ssh_conn' = opened + 1
               /\ openConns' = openConns \cup {opened + 1}
               /\ Goto("c_process")
          ELSE /\ ConnectHandler
               /\ ConnectContinue
               /\ UNCHANGED opened
    /\ UNCHANGED <<ret, ssh_process, content, connected, host, post_success,
                   remote, drops, refusals, notes, disconnects, writes, wconn,
                   wlog, outcome, badSeen, loginReads, fired>>

(* create_process: success assigns self._ssh_process and marks the session *)
(* connected; a failure runs the handler on the connection just opened.    *)
(* The call is awaited without wait_for (line 205), unlike the open, the   *)
(* reads, the drain and the closes: a remote side that never answers the   *)
(* request leaves the coroutine waiting at c_blocked.                      *)
ConnectCreateProcess ==
    /\ At("connect", "c_process")
    /\ \E result \in {"ok", "error", "no_answer"} :
          IF result = "ok"
          THEN /\ ssh_process' = ssh_conn
               /\ remote' = "ok"
               /\ connected' = TRUE
               /\ host' = hosts[Top.host_idx]
               /\ Goto("c_welcome")
               /\ UNCHANGED <<ssh_conn, openConns, refusals>>
          ELSE IF result = "no_answer"
          THEN /\ Goto("c_blocked")
               /\ UNCHANGED <<ssh_conn, ssh_process, openConns, remote,
                              connected, host, refusals>>
          ELSE /\ refusals < MaxRefusals
               /\ refusals' = refusals + 1
               /\ ConnectHandler
               /\ ConnectContinue
               /\ UNCHANGED <<ssh_process, remote, connected, host>>
    /\ UNCHANGED <<ret, content, post_success, opened, drops, notes,
                   disconnects, writes, wconn, connlog, wlog, outcome,
                   badSeen, loginReads, fired>>

(* Read the welcome text; an overloaded host is disconnected and skipped,  *)
(* any other text makes connect return True.                               *)
ConnectWelcome ==
    /\ At("connect", "c_welcome")
    /\ \E data \in ReadData :
          /\ content' = data
          /\ IF IsOverloaded(data)
             THEN /\ refusals < MaxRefusals
                  /\ refusals' = refusals + 1
                  /\ Disconnect
                  /\ ConnectContinue
                  /\ UNCHANGED ret
             ELSE /\ Return(TRUE)
                  /\ UNCHANGED <<ssh_conn, ssh_process, connected, openConns,
                                 remote, refusals, disconnects>>
    /\ UNCHANGED <<host, post_success, opened, drops, notes, writes, wconn,
                   connlog, wlog, outcome, badSeen, loginReads, fired>>

----------------------------------------------------------------------------
(* Environment: the remote side ends the shell process of the session     *)
(* (exit_status set), or its input side starts closing, or the handle      *)
(* breaks so that querying it raises.  The three tests of the health check *)
(* treat these alike (clear self._connected, return False), so one state   *)
(* "down" stands for them.  Only the health check of _write_data observes  *)
(* it, so the event is placed right before a health check.                 *)

RemoteDrop ==
    /\ At("write", "w_health")
    /\ ssh_process # NoHandle
    /\ remote = "ok"
    /\ drops < MaxDrops
    /\ drops' = drops + 1
    /\ remote' = "down"
    /\ UNCHANGED <<stack, ret, ssh_conn, ssh_process, content, connected, host,
                   post_success, openConns, opened, refusals, notes,
                   disconnects, writes, wconn, connlog, wlog, outcome,
                   badSeen, loginReads, fired>>

----------------------------------------------------------------------------
(* _write_data(data, retry_on_failure).                                    *)

(* Fault variant of RetriedCallRetryOnFailure: the retried call may        *)
(* reconnect again.                                                        *)
RetriedCallRetryOnFailure_True == TRUE

(* The value passed as retry_on_failure by the retried call (line 372).    *)
RetriedCallRetryOnFailure == FALSE

(* A caller's call of _write_data(data) with the default retry flag.       *)
CallWrite(retpc, data) ==
    /\ Call(retpc, WriteFrame(data, TRUE))
    /\ wlog' = NewWLog

(* Bookkeeping of a finished _write_data call in the history record.       *)
WLogReturn(v) ==
    IF Len(stack) >= 2 /\ stack[Len(stack) - 1].proc = "write"
    THEN wlog
    ELSE [wlog EXCEPT !.done = TRUE, !.result = v]

(* Health check failed and retry_on_failure holds: call connect().         *)
WriteUnhealthyReconnect ==
    /\ At("write", "w_health")
    /\ ~CheckConnectionHealth
    /\ Top.retry_on_failure
    /\ connected' = ConnectedAfterHealthCheck
    /\ Call("w_reconnected", ConnectFrame(DefaultMaxRetries))
    /\ connlog' = NewConnLog(DefaultMaxRetries)
    /\ wlog' = [wlog EXCEPT !.unhealthy = TRUE, !.connects = @ + 1]
    /\ UNCHANGED <<ret, ssh_conn, ssh_process, content, host, post_success,
                   openConns, opened, remote, drops, refusals, notes,
                   disconnects, writes, wconn, outcome, badSeen, loginReads,
                   fired>>

(* Health check failed and no retry is allowed: return False.              *)
WriteUnhealthyFail ==
    /\ At("write", "w_health")
    /\ ~CheckConnectionHealth
    /\ ~Top.retry_on_failure
    /\ connected' = ConnectedAfterHealthCheck
    /\ Return(FALSE)
    /\ wlog' = [WLogReturn(FALSE) EXCEPT !.retry_unhealthy = TRUE]
    /\ UNCHANGED <<ssh_conn, ssh_process, content, host, post_success,
                   openConns, opened, remote, drops, refusals, notes,
                   disconnects, writes, wconn, connlog, outcome, badSeen,
                   loginReads, fired>>

(* connect() returned: retry the write once, or give up.                   *)
WriteAfterReconnect ==
    /\ At("write", "w_reconnected")
    /\ IF ret
       THEN /\ Call("w_retried",
                    WriteFrame(Top.data, RetriedCallRetryOnFailure))
            /\ wlog' = [wlog EXCEPT !.connect_ok = TRUE, !.retried = @ + 1]
            /\ UNCHANGED ret
       ELSE /\ Return(FALSE)
            /\ wlog' = WLogReturn(FALSE)
    /\ connlog' = NewConnLog(0)
    /\ UNCHANGED <<ssh_conn, ssh_process, content, connected, host,
                   post_success, openConns, opened, remote, drops, refusals,
                   notes, disconnects, writes, wconn, outcome, badSeen,
                   loginReads, fired>>

(* The retried call returned: pass its result on.                          *)
WriteRetried ==
    /\ At("write", "w_retried")
    /\ Return(ret)
    /\ wlog' = WLogReturn(ret)
    /\ UNCHANGED <<ssh_conn, ssh_process, content, connected, host,
                   post_success, openConns, opened, remote, drops, refusals,
                   notes, disconnects, writes, wconn, connlog, outcome,
                   badSeen, loginReads, fired>>

(* Healthy: stdin.write and drain.  "ok": written and drained; "timeout"   *)
(* and "drain_error": written, the drain failed; "write_error": the write  *)
(* itself raised.  Every failure clears self._connected.  The test of line *)
(* 376 cannot fail here: the health check has just found the process and   *)
(* its stdin present.                                                      *)
WriteHealthy ==
    /\ At("write", "w_health")
    /\ CheckConnectionHealth
    /\ \E result \in {"ok", "timeout", "drain_error", "write_error"} :
          /\ writes' = IF result = "write_error" THEN writes
                       ELSE Append(writes, Top.data)
          /\ wconn' = IF result = "write_error" THEN wconn ELSE ssh_process
          /\ connected' = (result = "ok")
          /\ Return(result = "ok")
          /\ wlog' = WLogReturn(result = "ok")
    /\ UNCHANGED <<ssh_conn, ssh_process, content, host, post_success,
                   openConns, opened, remote, drops, refusals, notes,
                   disconnects, connlog, outcome, badSeen, loginReads, fired>>

----------------------------------------------------------------------------
(* login / input_user_password / is_success / _check_final_login_status.   *)
(* login returns what input_user_password returns, which returns what      *)
(* is_success returns: the three are one frame.                            *)

(* Fault variant of AccountLine: the secret is sent in place of the        *)
(* account.                                                                *)
AccountLine_Secret == <<_password, CRLF>>

(* The two credential lines written by input_user_password.               *)
AccountLine == <<_user, CRLF>>

SecretLine == <<_password, CRLF>>

(* Fault variant of BufferAfterRead: the text read is appended to the      *)
(* buffer.                                                                 *)
BufferAfterRead_Appended(buffer, data) == buffer \cup data

(* self._content = await self._read_data(): the text read replaces the     *)
(* buffer.                                                                 *)
BufferAfterRead(buffer, data) == data

(* A read of the login flow; the first sight of the bad-credentials phrase *)
(* is recorded.                                                            *)
LoginRead(data, first) ==
    /\ content' = BufferAfterRead(content, data)
    /\ loginReads' = Append(loginReads, data)
    /\ badSeen' = IF BadCredentialsSignature \in data /\ ~badSeen.seen
                  THEN [seen |-> TRUE, first |-> first,
                        writesAt |-> Len(writes), discAt |-> disconnects]
                  ELSE badSeen

(* input_user_password: look for a login prompt, write the account.        *)
InputUser ==
    /\ At("login", "l_prompt")
    /\ IF HasLoginPrompt(content)
       THEN /\ CallWrite("l_user", AccountLine)
            /\ UNCHANGED <<ret, outcome>>
       ELSE /\ Return(FALSE)
            /\ outcome' = "NoPromptDetected"
            /\ UNCHANGED wlog
    /\ UNCHANGED <<ssh_conn, ssh_process, content, connected, host,
                   post_success, openConns, opened, remote, drops, refusals,
                   notes, disconnects, writes, wconn, connlog, badSeen,
                   loginReads, fired>>

(* The account was written (or not): write the secret.                     *)
InputPassword ==
    /\ At("login", "l_user")
    /\ IF ret
       THEN /\ CallWrite("l_password", SecretLine)
            /\ UNCHANGED <<ret, outcome>>
       ELSE /\ Return(FALSE)
            /\ outcome' = "WriteFailure"
            /\ wlog' = NewWLog
    /\ UNCHANGED <<ssh_conn, ssh_process, content, connected, host,
                   post_success, openConns, opened, remote, drops, refusals,
                   notes, disconnects, writes, wconn, connlog, badSeen,
                   loginReads, fired>>

(* The secret was written (or not): read the answer.                       *)
ReadAfterPassword ==
    /\ At("login", "l_password")
    /\ IF ret
       THEN /\ \E data \in ReadData : LoginRead(data, TRUE)
            /\ Goto("is_bad")
            /\ UNCHANGED <<ret, outcome, fired>>
       ELSE /\ Return(FALSE)
            /\ outcome' = "WriteFailure"
            /\ UNCHANGED <<content, badSeen, loginReads, fired>>
    /\ wlog' = NewWLog
    /\ UNCHANGED <<ssh_conn, ssh_process, connected, host, post_success,
                   openConns, opened, remote, drops, refusals, notes,
                   disconnects, writes, wconn, connlog>>

(* is_success, first test: bad credentials end the flow with a             *)
(* notification and a disconnect.                                          *)
IsSuccessBadCredentials ==
    /\ At("login", "is_bad")
    /\ IF HasBadCredentials(content)
       THEN /\ notes' = Append(notes, "rejected")
            /\ Disconnect
            /\ Return(FALSE)
            /\ outcome' = "Rejected"
       ELSE /\ stack' = [stack EXCEPT ![Len(stack)].pc = "is_check",
                                      ![Len(stack)].step = 1]
            /\ UNCHANGED <<ret, ssh_conn, ssh_process, connected, openConns,
                           remote, notes, disconnects, outcome>>
    /\ UNCHANGED <<content, host, post_success, opened, drops, refusals,
                   writes, wconn, connlog, wlog, badSeen, loginReads, fired>>

(* is_success, corrective branch number step: if its phrase is in the      *)
(* buffer write its keystrokes, else go on to the next branch.             *)
IsSuccessCheck ==
    /\ At("login", "is_check")
    /\ Top.step <= Len(Correctives)
    /\ IF Correctives[Top.step].sig \in content
       THEN /\ CallWrite("is_written", Correctives[Top.step].keys)
            /\ fired' = Append(fired, Top.step)
       ELSE /\ stack' = [stack EXCEPT ![Len(stack)].step = @ + 1]
            /\ UNCHANGED <<wlog, fired>>
    /\ UNCHANGED <<ret, ssh_conn, ssh_process, content, connected, host,
                   post_success, openConns, opened, remote, drops, refusals,
                   notes, disconnects, writes, wconn, connlog, outcome,
                   badSeen, loginReads>>

(* Fault variant of NextBranch: the branch that fired is examined again.   *)
NextBranch_Same(step) == step

(* The branch examined after the re-read of branch number step: the `if`   *)
(* statements of is_success follow one another, none is a loop.            *)
NextBranch(step) == step + 1

(* The corrective keystrokes were written (or not): re-read the buffer and *)
(* go on to the next branch.                                               *)
IsSuccessReread ==
    /\ At("login", "is_written")
    /\ IF ret
       THEN /\ \E data \in ReadData : LoginRead(data, FALSE)
            /\ stack' = [stack EXCEPT ![Len(stack)].pc = "is_check",
                                      ![Len(stack)].step = NextBranch(@)]
            /\ UNCHANGED <<ret, outcome, fired>>
       ELSE /\ Return(FALSE)
            /\ outcome' = "WriteFailure"
            /\ UNCHANGED <<content, badSeen, loginReads, fired>>
    /\ wlog' = NewWLog
    /\ UNCHANGED <<ssh_conn, ssh_process, connected, host, post_success,
                   openConns, opened, remote, drops, refusals, notes,
                   disconnects, writes, wconn, connlog>>

(* _check_final_login_status: main menu or ambiguous, one notification.    *)
CheckFinalLoginStatus ==
    /\ At("login", "is_check")
    /\ Top.step > Len(Correctives)
    /\ IF IsMainMenu(content)
       THEN /\ notes' = Append(notes, "success")
            /\ outcome' = "Authenticated"
            /\ Return(TRUE)
       ELSE /\ notes' = Append(notes, "ambiguous")
            /\ outcome' = "AmbiguousAuthFailure"
            /\ Return(FALSE)
    /\ UNCHANGED <<ssh_conn, ssh_process, content, connected, host,
                   post_success, openConns, opened, remote, drops, refusals,
                   disconnects, writes, wconn, connlog, wlog, badSeen,
                   loginReads, fired>>

----------------------------------------------------------------------------
(* logout(): one write of the logout keystrokes, then disconnect.          *)

LogoutWrite ==
    /\ At("logout", "lo_start")
    /\ CallWrite("lo_written", LogoutKeys)
    /\ UNCHANGED <<ret, ssh_conn, ssh_process, content, connected, host,
                   post_success, openConns, opened, remote, drops, refusals,
                   notes, disconnects, writes, wconn, connlog, outcome,
                   badSeen, loginReads, fired>>

(* Fault variant of LogoutDisconnects: disconnect moved under the `if`.     *)
LogoutDisconnects_OnlyAfterWrite(write_ok) == write_ok

(* Whether logout() calls disconnect() given the result of its write: the  *)
(* call follows the `if`, and the except clause repeats it.                *)
LogoutDisconnects(write_ok) == TRUE

LogoutDisconnect ==
    /\ At("logout", "lo_written")
    /\ IF LogoutDisconnects(ret)
       THEN Disconnect
       ELSE UNCHANGED <<ssh_conn, ssh_process, connected, openConns, remote,
                        disconnects>>
    /\ Return(TRUE)
    /\ wlog' = NewWLog
    /\ UNCHANGED <<content, host, post_success, opened, drops, refusals, notes,
                   writes, wconn, connlog, outcome, badSeen, loginReads,
                   fired>>

----------------------------------------------------------------------------
(* main(): connect, login, logout, and the finally clause.                 *)

MainConnect ==
    /\ At("main", "m_start")
    /\ Call("m_connected", ConnectFrame(DefaultMaxRetries))
    /\ connlog' = NewConnLog(DefaultMaxRetries)
    /\ UNCHANGED <<ret, ssh_conn, ssh_process, content, connected, host,
                   post_success, openConns, opened, remote, drops, refusals,
                   notes, disconnects, writes, wconn, wlog, outcome, badSeen,
                   loginReads, fired>>

MainLogin ==
    /\ At("main", "m_connected")
    /\ IF ret
       THEN /\ Call("m_logged_in", Frame("login", "l_prompt"))
            /\ UNCHANGED notes
       ELSE /\ notes' = Append(notes, "connect_failed")
            /\ Goto("m_finally")
    /\ connlog' = NewConnLog(0)
    /\ UNCHANGED <<ret, ssh_conn, ssh_process, content, connected, host,
                   post_success, openConns, opened, remote, drops, refusals,
                   disconnects, writes, wconn, wlog, outcome, badSeen,
                   loginReads, fired>>

MainLogout ==
    /\ At("main", "m_logged_in")
    /\ IF ret
       THEN /\ Call("m_finally", Frame("logout", "lo_start"))
            /\ UNCHANGED notes
       ELSE /\ notes' = Append(notes, "login_failed")
            /\ Goto("m_finally")
    /\ UNCHANGED <<ret, ssh_conn, ssh_process, content, connected, host,
                   post_success, openConns, opened, remote, drops, refusals,
                   disconnects, writes, wconn, connlog, wlog, outcome,
                   badSeen, loginReads, fired>>

(* finally: disconnect only while self._connected still holds.             *)
MainFinally ==
    /\ At("main", "m_finally")
    /\ IF connected
       THEN Disconnect
       ELSE UNCHANGED <<ssh_conn, ssh_process, connected, openConns, remote,
                        disconnects>>
    /\ stack' = <<>>
    /\ UNCHANGED <<ret, content, host, post_success, opened, drops, refusals,
                   notes, writes, wconn, connlog, wlog, outcome, badSeen,
                   loginReads, fired>>

(* A user interrupt cancels the running coroutines at their await and      *)
(* control reaches the finally clause of main.                             *)
Interrupt ==
    /\ ~Done
    /\ stack[1].proc = "main"
    /\ ~At("main", "m_finally")
    /\ stack' = <<Frame("main", "m_finally")>>
    /\ UNCHANGED <<ret, ssh_conn, ssh_process, content, connected, host,
                   post_success, openConns, opened, remote, drops, refusals,
                   notes, disconnects, writes, wconn, connlog, wlog, outcome,
                   badSeen, loginReads, fired>>

----------------------------------------------------------------------------

ConnectStep ==
    \/ ConnectExhausted
    \/ ConnectOpen
    \/ ConnectCreateProcess
    \/ ConnectWelcome

WriteStep ==
    \/ WriteUnhealthyReconnect
    \/ WriteUnhealthyFail
    \/ WriteAfterReconnect
    \/ WriteRetried
    \/ WriteHealthy

LoginStep ==
    \/ InputUser
    \/ InputPassword
    \/ ReadAfterPassword
    \/ IsSuccessBadCredentials
    \/ IsSuccessCheck
    \/ IsSuccessReread
    \/ CheckFinalLoginStatus

Next ==
    \/ MainConnect
    \/ MainLogin
    \/ MainLogout
    \/ MainFinally
    \/ ConnectStep
    \/ WriteStep
    \/ LoginStep
    \/ LogoutWrite
    \/ LogoutDisconnect
    \/ RemoteDrop

Spec == Init /\ [][Next]_vars

(* The run of main with a user interrupt possible at every await.          *)
NextInterrupt == Next \/ Interrupt

SpecInterrupt == Init /\ [][NextInterrupt]_vars

----------------------------------------------------------------------------
(* connect(max_retries) on its own, for every budget up to MaxRetries,     *)
(* called on a fresh session or, as _write_data calls it, on a session     *)
(* whose health check has just failed.                                     *)

StaleSession ==
    /\ ret = FALSE
    /\ ssh_conn = 1
    /\ ssh_process = 1
    /\ content = WelcomeText
    /\ connected = FALSE
    /\ host = "ptt.cc"
    /\ post_success = FALSE
    /\ openConns = {1}
    /\ opened = 1
    /\ remote = "down"
    /\ drops = 1
    /\ refusals = 0
    /\ notes = <<>>
    /\ disconnects = 0
    /\ writes = <<>>
    /\ wconn = NoHandle
    /\ wlog = NewWLog
    /\ outcome = "none"
    /\ badSeen = [seen |-> FALSE, first |-> FALSE, writesAt |-> 0, discAt |-> 0]
    /\ loginReads = <<>>
    /\ fired = <<>>

InitConnect ==
    /\ FreshSession \/ StaleSession
    /\ \E n \in 0..MaxRetries :
          /\ stack = <<ConnectFrame(n)>>
          /\ connlog = NewConnLog(n)

NextConnect == ConnectStep

SpecConnect == InitConnect /\ [][NextConnect]_vars

----------------------------------------------------------------------------
(* post(board, title, content): nine writes, each guarded by               *)
(* `if not await self._write_data(...): return False`.  The frame keeps    *)
(* the arguments in data and the number of the next write in step.         *)

CtrlP == "\\x10"

CtrlX == "\\x18"

PostScript(board, title, body) ==
    << <<"s">>, <<board, CRLF>>, <<"q">>, <<CtrlP>>, <<"1", CRLF>>,
       <<title, CRLF>>, <<body, CtrlX>>, <<"s", CRLF>>, <<"0", CRLF>> >>

PostFrame(board, title, body) ==
    [Frame("post", "p_step") EXCEPT !.data = <<board, title, body>>,
                                    !.step = 1]

(* Fault variant of PostAborts: the result of the write is ignored.        *)
PostAborts_Never(write_ok) == FALSE

(* The guard of every step: a write that returned false ends post.         *)
PostAborts(write_ok) == ~write_ok

(* The next write of the script.                                           *)
PostWrite ==
    /\ At("post", "p_step")
    /\ Top.step = 1 \/ ~PostAborts(ret)
    /\ Top.step <= 9
    /\ LET script == PostScript(Top.data[1], Top.data[2], Top.data[3]) IN
       stack' = Append([stack EXCEPT ![Len(stack)].step = @ + 1],
                       WriteFrame(script[Top.step], TRUE))
    /\ wlog' = NewWLog
    /\ UNCHANGED <<ret, ssh_conn, ssh_process, content, connected, host,
                   post_success, openConns, opened, remote, drops, refusals,
                   notes, disconnects, writes, wconn, connlog, outcome,
                   badSeen, loginReads, fired>>

(* A write returned false: return False.                                   *)
PostAbort ==
    /\ At("post", "p_step")
    /\ Top.step > 1
    /\ PostAborts(ret)
    /\ Return(FALSE)
    /\ UNCHANGED <<ssh_conn, ssh_process, content, connected, host,
                   post_success, openConns, opened, remote, drops, refusals,
                   notes, disconnects, writes, wconn, connlog, wlog, outcome,
                   badSeen, loginReads, fired>>

(* All nine writes returned true: return True.                             *)
PostDone ==
    /\ At("post", "p_step")
    /\ Top.step = 10
    /\ ~PostAborts(ret)
    /\ Return(TRUE)
    /\ UNCHANGED <<ssh_conn, ssh_process, content, connected, host,
                   post_success, openConns, opened, remote, drops, refusals,
                   notes, disconnects, writes, wconn, connlog, wlog, outcome,
                   badSeen, loginReads, fired>>

PostStep == PostWrite \/ PostAbort \/ PostDone

(* The session as login leaves it when it returns True on the first read   *)
(* after the credentials.                                                  *)
AuthenticatedSession ==
    /\ ret = TRUE
    /\ ssh_conn = 1
    /\ ssh_process = 1
    /\ content = MenuText
    /\ connected = TRUE
    /\ host = "ptt.cc"
    /\ post_success = FALSE
    /\ openConns = {1}
    /\ opened = 1
    /\ remote = "ok"
    /\ drops = 0
    /\ refusals = 0
    /\ notes = <<"success">>
    /\ disconnects = 0
    /\ writes = <<AccountLine, SecretLine>>
    /\ wconn = 1
    /\ wlog = NewWLog
    /\ outcome = "Authenticated"
    /\ badSeen = [seen |-> FALSE, first |-> FALSE, writesAt |-> 0, discAt |-> 0]
    /\ loginReads = <<MenuText>>
    /\ fired = <<>>
    /\ connlog = NewConnLog(0)

Boards == {"test", "Gossiping"}

Titles == {"title"}

Bodies == {"body"}

(* post called by main after a successful login, as in the call that main  *)
(* keeps commented out; main is left waiting at m_posted.                  *)
InitPost ==
    /\ AuthenticatedSession
    /\ \E board \in Boards, title \in Titles, body \in Bodies :
          stack = <<[Frame("main", "m_posted") EXCEPT
                        !.data = <<board, title, body>>],
                    PostFrame(board, title, body)>>

NextPost ==
    \/ PostStep
    \/ WriteStep
    \/ ConnectStep
    \/ RemoteDrop

SpecPost == InitPost /\ [][NextPost]_vars

----------------------------------------------------------------------------
(* Derived notions used by the properties.                                 *)

(* The three-valued connection status of the session: connected when      *)
(* self._connected holds, connecting while a connect() call is running,    *)
(* disconnected otherwise.                                                 *)
Status ==
    IF connected THEN "connected"
    ELSE IF \E i \in 1..Len(stack) : stack[i].proc = "connect"
         THEN "connecting"
         ELSE "disconnected"

WriteDepth == Cardinality({i \in 1..Len(stack) : stack[i].proc = "write"})

FullPasses(n) == [i \in 1..(n * Len(hosts)) |-> ((i - 1) % Len(hosts)) + 1]

SuccessNotes == Cardinality({i \in 1..Len(notes) : notes[i] = "success"})

DupCorrections == Cardinality({i \in 1..Len(fired) : fired[i] = 1})

CorrectiveSignatures ==
    {DuplicateLoginSignature, AnyKeySignature, StaleErrorSignature,
     UnfinishedDraftSignature}

LoginReturned == outcome # "none"

(* The last text read by the login flow (the empty text before any read). *)
LastLoginRead ==
    IF loginReads = <<>> THEN EmptyText ELSE loginReads[Len(loginReads)]

(* The keystrokes of the corrective branches that fired, in order.         *)
FiredKeys == [i \in 1..Len(fired) |-> Correctives[fired[i]].keys]

(* The number of branches before branch k that fired.                      *)
FiredBefore(k) == Cardinality({i \in 1..Len(fired) : fired[i] < k})

(* A bound on the steps a frame can still take from its position, the     *)
(* calls it can still make included and the call it is waiting for         *)
(* excluded.  ConnectCost(n) bounds a whole connect(n): three steps (open, *)
(* create_process, welcome read) for each host of each pass, and the       *)
(* return.  WriteCost bounds a whole _write_data call: with the retry flag *)
(* the health check, one connect, the step after it, the retried call and  *)
(* the return of its result; without it one step.                          *)
ConnectCost(n) == 3 * n * Len(hosts) + 1

WriteCost(retry) == IF retry THEN ConnectCost(DefaultMaxRetries) + 4 ELSE 1

ChecksCost(step) == (5 - step) * (WriteCost(TRUE) + 2) + 1

Remaining(f) ==
    CASE f.proc = "connect" ->
           (LET hosts_left == (f.max_retries - f.attempt - 1) * Len(hosts)
                                + (Len(hosts) - f.host_idx + 1)
            IN CASE f.pc = "c_open" -> 3 * hosts_left + 1
                 [] f.pc = "c_process" -> 3 * hosts_left
                 [] f.pc = "c_welcome" -> 3 * hosts_left - 1
                 [] f.pc = "c_blocked" -> 0)
      [] f.proc = "write" ->
           (CASE f.pc = "w_health" -> WriteCost(f.retry_on_failure)
              [] f.pc = "w_reconnected" -> 3
              [] f.pc = "w_retried" -> 1)
      [] f.proc = "login" ->
           (CASE f.pc = "l_prompt" -> 2 * WriteCost(TRUE) + 4 + ChecksCost(1)
              [] f.pc = "l_user" -> WriteCost(TRUE) + 3 + ChecksCost(1)
              [] f.pc = "l_password" -> 2 + ChecksCost(1)
              [] f.pc = "is_bad" -> 1 + ChecksCost(1)
              [] f.pc = "is_check" -> ChecksCost(f.step)
              [] f.pc = "is_written" -> 1 + ChecksCost(f.step + 1))
      [] f.proc = "logout" ->
           (CASE f.pc = "lo_start" -> WriteCost(TRUE) + 2
              [] f.pc = "lo_written" -> 1)
      [] f.proc = "post" -> (10 - f.step) * (WriteCost(TRUE) + 1) + 1
      [] f.proc = "main" ->
           (CASE f.pc = "m_start" ->
                   ConnectCost(DefaultMaxRetries) + 3 * WriteCost(TRUE)
                     + ChecksCost(1) + 10
              [] f.pc = "m_connected" ->
                   3 * WriteCost(TRUE) + ChecksCost(1) + 9
              [] f.pc = "m_logged_in" -> WriteCost(TRUE) + 4
              [] f.pc = "m_finally" -> 1
              [] f.pc = "m_posted" -> 0)

RECURSIVE SumRemaining(_)
SumRemaining(frames) ==
    IF frames = <<>> THEN 0
    ELSE Remaining(frames[1]) + SumRemaining(Tail(frames))

(* The steps the run can still take: those of the frames on the stack and  *)
(* the drops the remote side may still make.                               *)
Measure == SumRemaining(stack) + (MaxDrops - drops)

(* Under SpecPost: the writes issued by post (the log starts with the two  *)
(* credential lines), the arguments of the call, and whether it returned.  *)
PostIssued == SubSeq(writes, 3, Len(writes))

PostArgs == stack[1].data

PostReturned == Len(stack) = 1

----------------------------------------------------------------------------
(* C1: in every reachable state a non-null transport handle (connection or *)
(* process) implies that the status is connected or connecting.            *)
C1_HandleImpliesConnected ==
    (ssh_conn # NoHandle \/ ssh_process # NoHandle)
        => Status \in {"connected", "connecting"}

(* C2: every complete run of main sends exactly one notification and makes *)
(* exactly one disconnect attempt.                                         *)
C2_OneNotificationOneDisconnect ==
    Done => (Len(notes) = 1 /\ disconnects = 1)

(* C3 as stated: whenever the bad-credentials phrase is read at any point  *)
(* of the login flow, the flow ends Rejected, with exactly one disconnect  *)
(* and no write after that read.                                           *)
C3_RejectedAtAnyPoint ==
    (Done /\ badSeen.seen)
        => /\ outcome = "Rejected"
           /\ disconnects = badSeen.discAt + 1
           /\ Len(writes) = badSeen.writesAt

(* C3 as amended: when the bad-credentials phrase is in the buffer read    *)
(* right after the credentials were sent, no write follows that read, and  *)
(* once is_success has examined the buffer the flow is Rejected and        *)
(* disconnect has been called exactly once since the read.                 *)
C3_RejectedAfterCredentials ==
    (badSeen.seen /\ badSeen.first)
        => /\ Len(writes) = badSeen.writesAt
           /\ IF At("login", "is_bad")
              THEN disconnects = badSeen.discAt /\ outcome = "none"
              ELSE /\ outcome = "Rejected"
                   /\ disconnects = badSeen.discAt + 1
                   /\ ~connected
                   /\ Len(notes) >= 1
                   /\ notes[1] = "rejected"

C3_Witness ==
    Done /\ badSeen.seen /\ badSeen.first /\ outcome = "Rejected"

(* C4: on every exit path of main, disconnect has been called at least     *)
(* once when the run ends.                                                 *)
C4_DisconnectOnEveryExit ==
    Done => disconnects >= 1

(* C5: a _write_data call whose health check fails calls connect exactly   *)
(* once; after a successful connect the write is retried exactly once with *)
(* the retry flag off, so calls nest at most one level deep and no second  *)
(* reconnect happens; when the connect fails or the retried call is still  *)
(* unhealthy the result is False.                                          *)
C5_SingleReconnect ==
    /\ WriteDepth <= 2
    /\ wlog.connects <= 1
    /\ wlog.retried <= 1
    /\ \A i \in 1..Len(stack) :
          (stack[i].proc = "write" /\ i > 1 /\ stack[i - 1].proc = "write")
              => ~stack[i].retry_on_failure
    /\ \A i \in 2..Len(stack) :
          (stack[i].proc = "connect" /\ stack[i - 1].proc = "write")
              => stack[i - 1].retry_on_failure
    /\ (wlog.done /\ wlog.unhealthy) => wlog.connects = 1
    /\ (wlog.done /\ wlog.unhealthy /\ wlog.connect_ok) => wlog.retried = 1
    /\ (wlog.done /\ wlog.unhealthy /\ ~wlog.connect_ok)
           => (wlog.retried = 0 /\ ~wlog.result)
    /\ (wlog.done /\ wlog.retry_unhealthy) => ~wlog.result

C5_Witness ==
    /\ wlog.done
    /\ wlog.unhealthy
    /\ wlog.connect_ok
    /\ wlog.retry_unhealthy

(* C6: when every host attempt fails, connect(N) makes exactly N passes    *)
(* over the host list, each pass trying every host once in list order, and *)
(* returns False.                                                          *)
C6_ExactlyNPasses ==
    /\ \A i \in 1..Len(connlog.opens) :
          connlog.opens[i] = ((i - 1) % Len(hosts)) + 1
    /\ Len(connlog.opens) <= connlog.budget * Len(hosts)
    /\ (Done /\ ~ret) => connlog.opens = FullPasses(connlog.budget)

C6_Witness ==
    /\ Done
    /\ ~ret
    /\ connlog.budget = MaxRetries
    /\ Len(connlog.opens) = MaxRetries * Len(hosts)

(* C7: when the welcome text read by connect contains the overload phrase, *)
(* the transport of that host is closed and cleared, connect does not      *)
(* return, and the next host to be opened is the next of the list (the     *)
(* first host of the next pass after the last host).                       *)
C7_OverloadSkipsHost ==
    [][ (At("connect", "c_welcome") /\ OverloadSignature \in content')
          => /\ ssh_conn' = NoHandle
             /\ ssh_process' = NoHandle
             /\ ~connected'
             /\ ssh_conn \notin openConns'
             /\ Len(stack') = Len(stack)
             /\ stack'[Len(stack')].proc = "connect"
             /\ stack'[Len(stack')].pc = "c_open"
             /\ IF Top.host_idx < Len(hosts)
                THEN /\ stack'[Len(stack')].host_idx = Top.host_idx + 1
                     /\ stack'[Len(stack')].attempt = Top.attempt
                ELSE /\ stack'[Len(stack')].host_idx = 1
                     /\ stack'[Len(stack')].attempt = Top.attempt + 1 ]_vars

C7_Witness ==
    /\ At("connect", "c_open")
    /\ OverloadSignature \in content
    /\ Top.host_idx = 2
    /\ ssh_conn = NoHandle
    /\ ~connected

(* C8: the logout keystrokes are written only after a post that returned   *)
(* success.                                                                *)
C8_LogoutOnlyAfterPost ==
    \A i \in 1..Len(writes) : writes[i] = LogoutKeys => post_success

(* C9: the account line is the first write and the secret line the second, *)
(* separate, write; when the buffer read after them contains a main-menu   *)
(* phrase and no other sub-state phrase, login ends Authenticated and the  *)
(* run sends exactly one success notification.                             *)
C9_PromptToAuthenticated ==
    /\ Len(writes) >= 1 => writes[1] = <<_user, CRLF>>
    /\ Len(writes) >= 2 => writes[2] = <<_password, CRLF>>
    /\ Len(loginReads) >= 1 => Len(writes) >= 2
    /\ ( /\ LoginReturned
         /\ Len(loginReads) >= 1
         /\ loginReads[1] \cap success_indicators # {}
         /\ loginReads[1] \cap CorrectiveSignatures = {}
         /\ BadCredentialsSignature \notin loginReads[1] )
       => /\ outcome = "Authenticated"
          /\ SuccessNotes = 1
          /\ Len(writes) >= 2
          /\ fired = <<>>
    /\ Done => SuccessNotes = (IF outcome = "Authenticated" THEN 1 ELSE 0)

C9_Witness ==
    /\ Done
    /\ loginReads = <<MenuText>>
    /\ outcome = "Authenticated"
    /\ notes = <<"success">>

(* C10 as stated: after a duplicate-login buffer (without the              *)
(* bad-credentials phrase) and a re-read that contains a main-menu phrase, *)
(* with all writes succeeding, login ends Authenticated and the            *)
(* confirmation was sent once.                                             *)
C10_DuplicateThenMenu ==
    ( /\ LoginReturned
      /\ outcome # "WriteFailure"
      /\ Len(loginReads) >= 2
      /\ DuplicateLoginSignature \in loginReads[1]
      /\ BadCredentialsSignature \notin loginReads[1]
      /\ loginReads[2] \cap success_indicators # {} )
    => (outcome = "Authenticated" /\ DupCorrections = 1)

(* C10 as amended: after a duplicate-login buffer (without the             *)
(* bad-credentials phrase) the confirmation keystroke with terminator is   *)
(* written exactly once and the buffer re-read; when the re-read buffer    *)
(* contains a main-menu phrase and none of the informational-page,         *)
(* stale-error and unfinished-draft phrases, and the writes succeed, login *)
(* ends Authenticated.                                                     *)
C10_DuplicateThenMenuOnly ==
    ( /\ LoginReturned
      /\ outcome # "WriteFailure"
      /\ Len(loginReads) >= 1
      /\ DuplicateLoginSignature \in loginReads[1]
      /\ BadCredentialsSignature \notin loginReads[1] )
    => /\ Len(loginReads) >= 2
       /\ Len(writes) >= 3
       /\ writes[3] = <<"y", CRLF>>
       /\ DupCorrections = 1
       /\ fired[1] = 1
       /\ ( /\ loginReads[2] \cap success_indicators # {}
            /\ loginReads[2] \cap (CorrectiveSignatures
                                     \ {DuplicateLoginSignature}) = {} )
          => (outcome = "Authenticated" /\ fired = <<1>>)

C10_Witness ==
    /\ Done
    /\ outcome = "Authenticated"
    /\ loginReads = <<{DuplicateLoginSignature}, MenuText>>
    /\ fired = <<1>>

----------------------------------------------------------------------------
(* C11: logout calls disconnect on every path through it: every step that  *)
(* returns from logout, whether its write of the logout keystrokes         *)
(* returned true or false, is a call of disconnect.                        *)
C11_LogoutAlwaysDisconnects ==
    [][(Len(stack) > 0 /\ Top.proc = "logout" /\ Len(stack') < Len(stack))
         => disconnects' = disconnects + 1]_vars

(* logout has returned after its write failed, and disconnect was called.  *)
C11_Witness ==
    /\ At("main", "m_finally")
    /\ outcome = "Authenticated"
    /\ \A i \in 1..Len(writes) : writes[i] # LogoutKeys
    /\ disconnects >= 1

----------------------------------------------------------------------------
(* C12: disconnect is idempotent. In every state of a run, a second call   *)
(* leaves the session as the first call left it and closes no handle,      *)
(* however the closes of the first call ended; after a call from a         *)
(* connected session both handles are null and the status is disconnected. *)
C12_DisconnectIdempotent ==
    \A r1 \in CloseResults, r2 \in CloseResults :
        LET once == DisconnectState(SessionState, r1)
            twice == DisconnectState(once, r2)
        IN /\ twice = once
           /\ DisconnectCloses(once) = {}
           /\ connected => /\ once.ssh_conn = NoHandle
                           /\ once.ssh_process = NoHandle
                           /\ ~once.connected

(* A connected session with both handles, in a run where disconnect has    *)
(* already been called once.                                               *)
C12_Witness ==
    /\ connected
    /\ ssh_conn # NoHandle
    /\ ssh_process # NoHandle
    /\ disconnects >= 1

----------------------------------------------------------------------------
----------------------------------------------------------------------------
(* C14: post issues the nine writes of its script in the fixed order, and  *)
(* as soon as one write returns false post returns false and writes none   *)
(* of the later steps.  (The two credential lines of the login precede the *)
(* script in the log of writes.)                                           *)
C14_PostAbortsAtFirstFailure ==
    /\ [](LET script == PostScript(PostArgs[1], PostArgs[2], PostArgs[3]) IN
          /\ Len(PostIssued) <= 9
          /\ PostIssued = SubSeq(script, 1, Len(PostIssued))
          /\ (At("post", "p_step") /\ (Top.step = 1 \/ ret))
               => Len(PostIssued) = Top.step - 1
          /\ (PostReturned /\ ret) => PostIssued = script)
    /\ [][(At("post", "p_step") /\ Top.step > 1 /\ ~ret)
            => (PostReturned' /\ ~ret' /\ writes' = writes)]_vars

(* post has returned false after its fourth write failed; three writes of  *)
(* the script were issued and no later one.                                *)
C14_Witness ==
    /\ PostReturned
    /\ ~ret
    /\ ~wlog.unhealthy
    /\ Len(PostIssued) = 3

----------------------------------------------------------------------------
(* C15: when the welcome buffer holds none of the login prompts, login     *)
(* returns false in its first step: nothing is written, nothing is read,   *)
(* connect is not called, and status, handles and buffer stay as they      *)
(* were.                                                                   *)
C15_NoPromptNoWrite ==
    [][(At("login", "l_prompt") /\ login_prompts \cap content = {})
         => /\ stack' = SubSeq(stack, 1, Len(stack) - 1)
            /\ ret' = FALSE
            /\ UNCHANGED <<ssh_conn, ssh_process, connected, content, writes,
                           loginReads, fired, opened, openConns, disconnects,
                           connlog>>]_vars

(* login has returned false on a welcome text without a prompt; the        *)
(* session is still connected and nothing was written.                     *)
C15_Witness ==
    /\ At("main", "m_logged_in")
    /\ ~ret
    /\ outcome = "NoPromptDetected"
    /\ login_prompts \cap content = {}
    /\ writes = <<>>
    /\ loginReads = <<>>
    /\ connected
    /\ ssh_conn # NoHandle
    /\ ssh_process # NoHandle

----------------------------------------------------------------------------
(* C16: login returns true only if the last text read by the flow holds a  *)
(* main-menu signature, the text read right after the credentials did not  *)
(* hold the bad-credentials signature, and every write of the flow         *)
(* returned true (a write that returns false ends the flow with false at   *)
(* once); every other completed flow returns false as Rejected,            *)
(* AmbiguousAuthFailure, NoPromptDetected or a write failure.              *)
C16_TrueOnlyOnMainMenu ==
    /\ [](At("main", "m_logged_in")
            => /\ ret => /\ loginReads # <<>>
                         /\ success_indicators \cap LastLoginRead # {}
                         /\ content = LastLoginRead
                         /\ BadCredentialsSignature \notin loginReads[1]
                         /\ writes = <<AccountLine, SecretLine>> \o FiredKeys
                         /\ outcome = "Authenticated"
               /\ ~ret => outcome \in {"Rejected", "AmbiguousAuthFailure",
                                       "NoPromptDetected", "WriteFailure"})
    /\ [][(/\ Len(stack) > 0
           /\ Top.proc = "login"
           /\ Top.pc \in {"l_user", "l_password", "is_written"}
           /\ ~ret)
            => (stack' = SubSeq(stack, 1, Len(stack) - 1) /\ ~ret')]_vars

(* login has returned true after two corrective branches fired.            *)
C16_Witness ==
    /\ At("main", "m_logged_in")
    /\ ret
    /\ Len(fired) = 2
    /\ wlog = NewWLog

----------------------------------------------------------------------------
(* C17: the corrective branches are examined in the order duplicate login, *)
(* informational page, stale error, unfinished draft, each against the     *)
(* text left by the previous branch; each fires at most once, with one     *)
(* write followed by one re-read that replaces the buffer; so a login has  *)
(* at most four corrective writes, and a signature that is still there     *)
(* after its own correction is not corrected again.                        *)
C17_CorrectivesSingleShot ==
    /\ Len(fired) <= 4
    /\ \A i \in 1..Len(fired) :
          /\ fired[i] \in 1..4
          /\ \A j \in 1..Len(fired) : i < j => fired[i] < fired[j]
          /\ i <= Len(loginReads) => Correctives[fired[i]].sig \in loginReads[i]
    /\ Len(loginReads) <= 1 + Len(fired)
    /\ At("login", "is_check")
         => /\ Len(loginReads) = 1 + Len(fired)
            /\ content = LastLoginRead
            /\ writes = <<AccountLine, SecretLine>> \o FiredKeys
            /\ \A k \in 1..4 :
                  k < Top.step
                    => ((\E i \in 1..Len(fired) : fired[i] = k)
                          <=> Correctives[k].sig
                                 \in loginReads[1 + FiredBefore(k)])

(* All four branches fired in one login.                                   *)
C17_Witness ==
    /\ LoginReturned
    /\ fired = <<1, 2, 3, 4>>
    /\ Len(loginReads) = 5

(* A duplicate-login signature was still there after its correction and    *)
(* the flow went on without correcting it again.                           *)
C17_WitnessStillPresent ==
    /\ LoginReturned
    /\ fired = <<1>>
    /\ Len(loginReads) = 2
    /\ DuplicateLoginSignature \in loginReads[2]

----------------------------------------------------------------------------
(* C18: a read of the login flow that returns the empty text (a timeout    *)
(* or a fault of the read) is no error: status and handles stay as they    *)
(* were, the buffer becomes the empty text, and the flow goes on to the    *)
(* next test of is_success and ends in the final classification.           *)
C18_EmptyReadContinues ==
    /\ [][(/\ Len(stack) > 0
           /\ Top.proc = "login"
           /\ Len(loginReads') = Len(loginReads) + 1
           /\ loginReads'[Len(loginReads')] = EmptyText)
            => /\ content' = EmptyText
               /\ UNCHANGED <<connected, ssh_conn, ssh_process, openConns,
                              outcome, notes, disconnects>>
               /\ Len(stack') = Len(stack)
               /\ stack'[Len(stack')].proc = "login"
               /\ stack'[Len(stack')].pc \in {"is_bad", "is_check"}]_vars
    /\ []((LoginReturned /\ loginReads # <<>> /\ LastLoginRead = EmptyText)
            => outcome = "AmbiguousAuthFailure")

(* A re-read after a corrective write returned the empty text, the flow    *)
(* went on to the final classification, and the session is still           *)
(* connected.                                                              *)
C18_Witness ==
    /\ At("main", "m_logged_in")
    /\ outcome = "AmbiguousAuthFailure"
    /\ Len(loginReads) = 2
    /\ loginReads[1] # EmptyText
    /\ loginReads[2] = EmptyText
    /\ content = EmptyText
    /\ connected

----------------------------------------------------------------------------
(* C19: every run of main terminates whatever the remote side does: a      *)
(* measure that is a function of the retry budget and of the length of the *)
(* host list bounds the steps still to come, every step lowers it, it      *)
(* never drops below zero, and a run that has not ended can always take a  *)
(* step; the writes and reads of a run and the opens of a connect call are *)
(* bounded accordingly.                                                    *)
C19_RunTerminates ==
    /\ [][Measure' < Measure]_vars
    /\ [](/\ Measure >= 0
          /\ Measure <= ConnectCost(DefaultMaxRetries)
                          + 3 * WriteCost(TRUE) + ChecksCost(1) + 10 + MaxDrops
          /\ ~Done => ENABLED Next
          /\ Len(writes) <= 7
          /\ Len(loginReads) <= 5
          /\ Len(connlog.opens) <= connlog.budget * Len(hosts))

----------------------------------------------------------------------------
(* C20: every connection opened during a run is closed before the run      *)
(* ends, both handles are null when main returns, and a handle is never    *)
(* replaced by a new connection while the connection it holds is still     *)
(* unclosed.                                                               *)
C20_EveryConnectionClosed ==
    /\ [](Done => (/\ openConns = {}
                   /\ ssh_conn = NoHandle
                   /\ ssh_process = NoHandle))
    /\ [][(ssh_conn # NoHandle /\ ssh_conn' # ssh_conn)
            => ssh_conn \notin openConns']_vars

----------------------------------------------------------------------------
(* C21: every write after the first of a run goes to the connection the    *)
(* write before it went to; in particular the secret goes to the           *)
(* connection the account was written to, and no write is the first input  *)
(* of a connection opened by a reconnect.                                  *)
C21_SecretOnAccountConnection ==
    [][(writes # <<>> /\ Len(writes') = Len(writes) + 1)
         => ssh_process = wconn]_vars

====
